---- MODULE Spec2Model ----
(***************************************************************************)
(* Model of the document-content normalisation pipeline of the Granola     *)
(* meeting-notes agent (src/src/granola_client.py):                        *)
(*   - prosemirror_to_markdown: the rich-text tree renderer,               *)
(*   - get_document_transcript: the speaker-labelled transcript,           *)
(*   - get_document_as_markdown: the note source merger,                   *)
(* and of the run that feeds it (src/main.py, src/src/output_manager.py):  *)
(*   - main: the loop over the fetched documents,                          *)
(*   - process_meeting: conversion, extraction and saving of one document, *)
(*   - ProcessedMeetingsTracker: the processed-ID store.                   *)
(*                                                                         *)
(* A Python str is a sequence of one-character strings, so that length,    *)
(* trimming, splitting and substring search are computed as Python         *)
(* computes them.  A Python value is a tagged record (PyNone, PyStr, ...), *)
(* a dict is a record whose absent keys are absent fields, read with Get   *)
(* as dict.get reads them.  The debug flag only prints and the depth       *)
(* argument of process_node only limits that printing: neither is state.   *)
(***************************************************************************)
EXTENDS Integers, Sequences, FiniteSets, TLC

VARIABLES
    pc,               \* position of the call under way
    input,            \* prosemirror_json handed to prosemirror_to_markdown
    calls,            \* the invocations of process_node made by the call
    document,         \* the document record handed to get_document_as_markdown
    response,         \* what the transcript endpoint answers for the document
    transcript,       \* get_document_as_markdown: local transcript
    enhanced_notes,   \* get_document_as_markdown: local enhanced_notes
    manual_rendered,  \* local manual_markdown before line 378 trims it
    manual_markdown,  \* local manual_markdown after line 378
    sections,         \* get_document_as_markdown: local sections
    result,           \* the value the call returned
    args,             \* main: the flags --all and --force
    environ,          \* whether ANTHROPIC_API_KEY is set in the environment
    documents,        \* main: the documents fetched
    doc_index,        \* main: i, the index of the loop over documents
    processed_ids,    \* ProcessedMeetingsTracker.processed_ids
    tracking_file,    \* the content of data/processed_meetings.json
    processed_count,  \* main: local processed_count
    skipped_count,    \* main: local skipped_count
    ai_result,        \* process_meeting: local result
    saved_paths,      \* what process_meeting returned to main
    files,            \* the output files written under the output directory
    log               \* what the run did, in order: one entry per message printed
                      \* or call made for a document

\* the state of main.py
mainvars ==
    <<args, environ, documents, doc_index, processed_ids, tracking_file, processed_count,
      skipped_count, ai_result, saved_paths, files, log>>

vars ==
    <<pc, input, calls, document, response, transcript, enhanced_notes,
      manual_rendered, manual_markdown, sections, result, mainvars>>

-----------------------------------------------------------------------------
(* Python values and str operations *)

PyNone == [kind |-> "none"]
PyStr(s) == [kind |-> "str", s |-> s]
PyDict(n) == [kind |-> "dict", node |-> n]
PyInt(d) == [kind |-> "int", digits |-> d]
PyList(xs) == [kind |-> "list", items |-> xs]

\* dict.get(k, default)
Get(d, k, default) == IF k \in DOMAIN d THEN d[k] ELSE default

\* The characters str.strip() removes.
Whitespace == {" ", "\t", "\n", "\r"}

RECURSIVE lstrip(_)
lstrip(s) ==
    IF s = <<>> THEN s
    ELSE IF Head(s) \in Whitespace THEN lstrip(Tail(s)) ELSE s

RECURSIVE rstrip(_)
rstrip(s) ==
    IF s = <<>> THEN s
    ELSE IF s[Len(s)] \in Whitespace THEN rstrip(SubSeq(s, 1, Len(s) - 1)) ELSE s

\* str.strip()
strip(s) == rstrip(lstrip(s))

\* sub in s
Contains(s, sub) ==
    \E i \in 1..(Len(s) - Len(sub) + 1) : SubSeq(s, i, i + Len(sub) - 1) = sub

\* s.startswith(p)
StartsWith(s, p) == Len(s) >= Len(p) /\ SubSeq(s, 1, Len(p)) = p

\* s.replace(old, new): the non-overlapping occurrences, left to right
RECURSIVE replace(_, _, _)
replace(s, old, new) ==
    IF Len(s) < Len(old) THEN s
    ELSE IF SubSeq(s, 1, Len(old)) = old
         THEN new \o replace(SubSeq(s, Len(old) + 1, Len(s)), old, new)
         ELSE <<Head(s)>> \o replace(Tail(s), old, new)

\* sep.join(parts)
RECURSIVE join(_, _)
join(sep, parts) ==
    IF parts = <<>> THEN <<>>
    ELSE IF Len(parts) = 1 THEN parts[1]
    ELSE parts[1] \o sep \o join(sep, Tail(parts))

\* ''.join(parts)
Concat(parts) == join(<<>>, parts)

\* s.split(c) for a one-character separator
RECURSIVE split(_, _)
split(s, c) ==
    IF \A i \in 1..Len(s) : s[i] # c THEN <<s>>
    ELSE LET i == CHOOSE j \in 1..Len(s) :
                      s[j] = c /\ \A k \in 1..(j - 1) : s[k] # c
         IN  <<SubSeq(s, 1, i - 1)>> \o split(SubSeq(s, i + 1, Len(s)), c)

\* c * n
RECURSIVE Repeat(_, _)
Repeat(c, n) == IF n <= 0 THEN <<>> ELSE <<c>> \o Repeat(c, n - 1)

\* The grave accent of inline code and code fences: the one character a TLA+
\* string cannot hold, so it is named.
Backtick == "GRAVE"
Fence == <<Backtick, Backtick, Backtick>>

NL == <<"\n">>
NL2 == <<"\n", "\n">>
NL3 == <<"\n", "\n", "\n">>

-----------------------------------------------------------------------------
(* prosemirror_to_markdown *)

\* list_context of the root call (the parameter's default)
NoContext == "None"

\* one pass of the loop over marks
wrap_mark(result_text, mark) ==
    LET mark_type == Get(mark, "type", "")
    IN  IF mark_type = "bold" THEN <<"*", "*">> \o result_text \o <<"*", "*">>
        ELSE IF mark_type = "italic" THEN <<"*">> \o result_text \o <<"*">>
        ELSE IF mark_type = "code" THEN <<Backtick>> \o result_text \o <<Backtick>>
        ELSE IF mark_type = "link"
             THEN LET href == Get(Get(mark, "attrs", <<>>), "href", <<>>)
                  IN  <<"[">> \o result_text \o <<"]", "(">> \o href \o <<")">>
        ELSE result_text

\* the marks applied last to first
RECURSIVE apply_marks_reversed(_, _)
apply_marks_reversed(text, marks) ==
    IF marks = <<>> THEN text
    ELSE wrap_mark(apply_marks_reversed(text, Tail(marks)), Head(marks))

\* the loop over marks: result_text after the marks were applied in order
RECURSIVE apply_marks(_, _)
apply_marks(text, marks) ==
    IF marks = <<>> THEN text
    ELSE wrap_mark(apply_marks(text, SubSeq(marks, 1, Len(marks) - 1)),
                   marks[Len(marks)])

\* a node of unknown kind losing what its children rendered
unknown_block_dropped(text_content) == <<>>

\* a node of a kind the dispatch does not know: the children's output as it is
unknown_block(text_content) == text_content

\* a paragraph that keeps a blank body
paragraph_keeps_blank(text_content, list_context) ==
    IF list_context # NoContext THEN text_content ELSE text_content \o NL2

\* node_type == 'paragraph'
paragraph(text_content, list_context) ==
    IF strip(text_content) = <<>> THEN <<>>
    ELSE IF list_context # NoContext THEN text_content
    ELSE text_content \o NL2

\* a heading that ignores its level
heading_level_ignored(attrs, text_content) ==
    IF strip(text_content) = <<>> THEN <<>>
    ELSE <<"#", " ">> \o text_content \o NL2

\* node_type == 'heading'
heading(attrs, text_content) ==
    IF strip(text_content) = <<>> THEN <<>>
    ELSE Repeat("#", Get(attrs, "level", 1)) \o <<" ">> \o text_content \o NL2

\* a list item that keeps the whitespace around its body
list_item_untrimmed(text_content, list_context) ==
    IF list_context = "ordered"
    THEN <<"1", ".", " ">> \o text_content \o NL
    ELSE <<"-", " ">> \o text_content \o NL

\* node_type == 'listItem'
list_item(text_content, list_context) ==
    IF list_context = "ordered"
    THEN <<"1", ".", " ">> \o strip(text_content) \o NL
    ELSE <<"-", " ">> \o strip(text_content) \o NL

\* a blockquote that leaves the empty lines of its body without prefix
blockquote_bare_empty_lines(text_content) ==
    LET lines == split(strip(text_content), "\n")
        quoted == join(NL, [i \in 1..Len(lines) |->
                              IF lines[i] = <<>> THEN <<>>
                              ELSE <<">", " ">> \o lines[i]])
    IN  quoted \o NL2

\* node_type == 'blockquote'
blockquote(text_content) ==
    LET lines == split(strip(text_content), "\n")
        quoted == join(NL, [i \in 1..Len(lines) |-> <<">", " ">> \o lines[i]])
    IN  quoted \o NL2

\* what a block node makes of the joined output of its children
wrap_block(node, text_content, list_context) ==
    LET node_type == Get(node, "type", "")
        attrs == Get(node, "attrs", <<>>)
    IN  CASE node_type = "doc" -> text_content
          [] node_type = "paragraph" -> paragraph(text_content, list_context)
          [] node_type = "heading" -> heading(attrs, text_content)
          [] node_type = "bulletList" -> text_content
          [] node_type = "orderedList" -> text_content
          [] node_type = "listItem" -> list_item(text_content, list_context)
          [] node_type = "codeBlock" ->
                Fence \o Get(attrs, "language", <<>>) \o NL
                    \o text_content \o NL \o Fence \o NL2
          [] node_type = "blockquote" -> blockquote(text_content)
          [] node_type = "hardBreak" -> NL
          [] node_type = "horizontalRule" -> <<"-", "-", "-">> \o NL2
          [] OTHER -> unknown_block(text_content)

\* the context process_node hands to the children of node
child_context(node, list_context) == list_context

RECURSIVE process_node(_, _)

\* the text of a node wrapped like the output of children
process_node_text_wrapped(node, list_context) ==
    LET content == Get(node, "content", <<>>)
        text == Get(node, "text", <<>>)
    IN  wrap_block(node,
            IF text # <<>> THEN apply_marks(text, Get(node, "marks", <<>>))
            ELSE Concat([i \in 1..Len(content) |->
                           process_node(content[i], child_context(node, list_context))]),
            list_context)

process_node(node, list_context) ==
    LET content == Get(node, "content", <<>>)
        text == Get(node, "text", <<>>)
    IN  IF text # <<>> THEN apply_marks(text, Get(node, "marks", <<>>))
        ELSE wrap_block(node,
                 Concat([i \in 1..Len(content) |->
                            process_node(content[i], child_context(node, list_context))]),
                 list_context)

\* the clean-up as a single replace instead of a loop
collapse_newlines_once(s) == replace(s, NL3, NL2)

\* the while loop that cleans up consecutive newlines
RECURSIVE collapse_newlines(_)
collapse_newlines(s) ==
    IF Contains(s, NL3) THEN collapse_newlines(replace(s, NL3, NL2)) ELSE s

\* the invocations of process_node under one call, the call itself first:
\* its node, the list_context it was given, the kinds of its ancestors from the
\* root down, and what it returned
RECURSIVE call_log(_, _, _)
call_log(node, list_context, ancestors) ==
    LET content == Get(node, "content", <<>>)
        text == Get(node, "text", <<>>)
        here == [node |-> node, list_context |-> list_context,
                 ancestors |-> ancestors,
                 out |-> process_node(node, list_context)]
    IN  IF text # <<>> THEN <<here>>
        ELSE <<here>> \o
             Concat([i \in 1..Len(content) |->
                        call_log(content[i], child_context(node, list_context),
                                 Append(ancestors, Get(node, "type", "")))])

\* repr(v) of a decoded JSON value (the strings of the model hold no quote)
RECURSIVE py_repr(_)
py_repr(v) ==
    CASE v.kind = "none" -> <<"N", "o", "n", "e">>
      [] v.kind = "int" -> v.digits
      [] v.kind = "str" -> <<"'">> \o v.s \o <<"'">>
      [] v.kind = "list" ->
            <<"[">> \o join(<<",", " ">>,
                            [i \in 1..Len(v.items) |-> py_repr(v.items[i])])
                \o <<"]">>

\* str(v)
py_str(v) == IF v.kind = "str" THEN v.s ELSE py_repr(v)

prosemirror_to_markdown(prosemirror_json) ==
    IF prosemirror_json.kind = "dict"
    THEN strip(collapse_newlines(process_node(prosemirror_json.node, NoContext)))
    ELSE py_str(prosemirror_json)

-----------------------------------------------------------------------------
(* json.loads, on the fragment of JSON the manual-content strings are drawn   *)
(* from: null, integers, strings without escapes, arrays, and objects whose   *)
(* only member process_node reads is a string "text".                        *)

JsonFail == [ok |-> FALSE]

IsDigit(c) == c \in {"0", "1", "2", "3", "4", "5", "6", "7", "8", "9"}

RECURSIVE skip_ws(_, _)
skip_ws(s, i) ==
    IF i <= Len(s) /\ s[i] \in Whitespace THEN skip_ws(s, i + 1) ELSE i

\* the index after the integer literal that starts at i (a leading 0 stands alone)
RECURSIVE digits_end(_, _)
digits_end(s, i) ==
    IF i <= Len(s) /\ IsDigit(s[i]) THEN digits_end(s, i + 1) ELSE i

\* the index of the quote that closes the string whose body starts at i, 0 if none
RECURSIVE string_end(_, _)
string_end(s, i) ==
    IF i > Len(s) THEN 0
    ELSE IF s[i] = "\"" THEN i
    ELSE IF s[i] \in {"\\", "\n", "\t", "\r"} THEN 0
    ELSE string_end(s, i + 1)

RECURSIVE parse_value(_, _)
RECURSIVE parse_items(_, _, _)
RECURSIVE parse_members(_, _, _)

parse_value(s, from) ==
    LET i == skip_ws(s, from)
    IN  IF i > Len(s) THEN JsonFail
        ELSE IF s[i] = "\"" THEN
            LET e == string_end(s, i + 1)
            IN  IF e = 0 THEN JsonFail
                ELSE [ok |-> TRUE, value |-> PyStr(SubSeq(s, i + 1, e - 1)), next |-> e + 1]
        ELSE IF IsDigit(s[i]) THEN
            LET e == IF s[i] = "0" THEN i + 1 ELSE digits_end(s, i)
            IN  [ok |-> TRUE, value |-> PyInt(SubSeq(s, i, e - 1)), next |-> e]
        ELSE IF i + 3 <= Len(s) /\ SubSeq(s, i, i + 3) = <<"n", "u", "l", "l">> THEN
            [ok |-> TRUE, value |-> PyNone, next |-> i + 4]
        ELSE IF s[i] = "[" THEN parse_items(s, i + 1, <<>>)
        ELSE IF s[i] = "{" THEN parse_members(s, i + 1, <<>>)
        ELSE JsonFail

\* the rest of an array, acc the items read so far
parse_items(s, from, acc) ==
    LET i == skip_ws(s, from)
    IN  IF i <= Len(s) /\ s[i] = "]" /\ acc = <<>>
        THEN [ok |-> TRUE, value |-> PyList(<<>>), next |-> i + 1]
        ELSE LET r == parse_value(s, i)
                 k == skip_ws(s, r.next)
             IN  IF ~r.ok THEN JsonFail
                 ELSE IF k > Len(s) THEN JsonFail
                 ELSE IF s[k] = "," THEN parse_items(s, k + 1, Append(acc, r.value))
                 ELSE IF s[k] = "]"
                      THEN [ok |-> TRUE, value |-> PyList(Append(acc, r.value)),
                            next |-> k + 1]
                 ELSE JsonFail

\* the rest of an object, acc the dict read so far (a later member overrides)
parse_members(s, from, acc) ==
    LET i == skip_ws(s, from)
    IN  IF i <= Len(s) /\ s[i] = "}" /\ DOMAIN acc = {}
        THEN [ok |-> TRUE, value |-> PyDict(acc), next |-> i + 1]
        ELSE IF i > Len(s) \/ s[i] # "\"" THEN JsonFail
        ELSE LET e == string_end(s, i + 1)
                 c == skip_ws(s, e + 1)
                 r == parse_value(s, c + 1)
                 k == skip_ws(s, r.next)
                 key == SubSeq(s, i + 1, e - 1)
                 dict == IF key = <<"t", "e", "x", "t">> /\ r.value.kind = "str"
                         THEN [f \in DOMAIN acc \cup {"text"} |->
                                  IF f = "text" THEN r.value.s ELSE acc[f]]
                         ELSE [f \in DOMAIN acc \cup {"member"} |->
                                  IF f = "member" THEN <<>> ELSE acc[f]]
             IN  IF e = 0 THEN JsonFail
                 ELSE IF c > Len(s) \/ s[c] # ":" THEN JsonFail
                 ELSE IF ~r.ok THEN JsonFail
                 ELSE IF k > Len(s) THEN JsonFail
                 ELSE IF s[k] = "," THEN parse_members(s, k + 1, dict)
                 ELSE IF s[k] = "}"
                      THEN [ok |-> TRUE, value |-> PyDict(dict), next |-> k + 1]
                 ELSE JsonFail

\* json.loads(s): ok is FALSE where it raises JSONDecodeError
json_loads(s) ==
    LET r == parse_value(s, 1)
    IN  IF r.ok /\ skip_ws(s, r.next) > Len(s)
        THEN [ok |-> TRUE, value |-> r.value]
        ELSE JsonFail

-----------------------------------------------------------------------------
(* The rich-text trees the renderer is run on *)

MaxMarks == 2     \* marks on one leaf
MaxInline == 2    \* children of a block that holds inline nodes
MaxParas == 2     \* paragraphs in one list item
MaxItems == 2     \* items in one list
MaxTop == 3       \* blocks in one document

SeqUpTo(S, n) == UNION {[1..k -> S] : k \in 0..n}

Text(t) == [type |-> "text", text |-> t]
Node(kind, content) == [type |-> kind, content |-> content]
Leaf(kind) == [type |-> kind]

Marks ==
    {[type |-> "bold"], [type |-> "italic"], [type |-> "code"],
     [type |-> "link", attrs |-> [href |-> <<"u">>]], [type |-> "link"],
     [type |-> "link", attrs |-> [title |-> <<"t">>]], [type |-> "underline"]}

MarkedLeaves ==
    {[type |-> "text", text |-> <<"h", "i">>, marks |-> ms] :
        ms \in SeqUpTo(Marks, MaxMarks) \ {<<>>}}

Inlines == {Text(<<"A">>), Text(<<"B">>), Text(<<" ">>), Leaf("hardBreak")}

InlineSeqs == SeqUpTo(Inlines, MaxInline)

\* one block over inline nodes, every kind of the dispatch and one it does not know
InlineBlocks ==
    {Node(k, c) : k \in {"doc", "paragraph", "listItem", "codeBlock",
                         "blockquote", "heading", "mystery"},
                  c \in InlineSeqs}
    \cup {[type |-> "heading", attrs |-> [level |-> 2], content |-> c] :
            c \in InlineSeqs}
    \cup {[type |-> "codeBlock", attrs |-> [language |-> <<"p", "y">>],
           content |-> c] : c \in InlineSeqs}
    \cup {Leaf("horizontalRule")}
    \cup {Node("paragraph", <<l>>) : l \in MarkedLeaves}

ParaA == Node("paragraph", <<Text(<<"A">>)>>)
ParaB == Node("paragraph", <<Text(<<"B">>)>>)

Items ==
    {Node("listItem", c) : c \in SeqUpTo({ParaA, ParaB}, MaxParas)}
    \cup {Node("listItem", <<Text(<<"A">>)>>), Node("listItem", <<Text(<<"B">>)>>)}

Lists ==
    {Node(k, c) : k \in {"bulletList", "orderedList"}, c \in SeqUpTo(Items, MaxItems)}

\* a list inside an item of a list
NestedLists ==
    {Node(outer, <<Node("listItem", <<ParaA, Node(inner, <<Node("listItem", <<ParaB>>)>>)>>)>>) :
        outer \in {"bulletList", "orderedList"},
        inner \in {"bulletList", "orderedList"}}

TopBlocks ==
    {ParaA, Node("paragraph", <<Text(<<" ">>)>>),
     [type |-> "heading", attrs |-> [level |-> 2], content |-> <<Text(<<"B">>)>>],
     Leaf("hardBreak"), Leaf("horizontalRule"),
     Node("orderedList", <<Node("listItem", <<ParaA>>)>>),
     Node("blockquote", <<ParaA, ParaB>>),
     Node("codeBlock", <<Text(<<"A">>)>>),
     Node("mystery", <<ParaA, Text(<<"B">>)>>),
     Node("mystery", <<Leaf("hardBreak"), Leaf("hardBreak")>>)}

Docs == {Node("doc", c) : c \in SeqUpTo(TopBlocks, MaxTop)}

\* nodes that carry text and children at once
TextBlocks ==
    {[type |-> k, text |-> <<"A">>, content |-> <<ParaB>>] :
        k \in {"doc", "paragraph", "heading", "bulletList", "orderedList",
               "listItem", "codeBlock", "blockquote", "hardBreak",
               "horizontalRule", "mystery"}}
    \cup {[type |-> "mystery", text |-> <<"A">>, marks |-> <<[type |-> "bold"]>>,
           content |-> <<ParaB>>],
          Node("mystery", <<[type |-> "table", text |-> <<"A">>, content |-> <<ParaB>>]>>)}

\* nodes with neither text nor children: the keys missing, or present and empty
EmptyNodes ==
    LET kinds == {"doc", "paragraph", "heading", "bulletList", "orderedList",
                  "listItem", "codeBlock", "blockquote", "hardBreak",
                  "horizontalRule", "text", "mystery"}
    IN  {Leaf(k) : k \in kinds}
        \cup {[type |-> k, text |-> <<>>, content |-> <<>>] : k \in kinds}
        \cup {[content |-> <<>>],
              [type |-> "codeBlock", attrs |-> [language |-> <<"p", "y">>]],
              Node("doc", <<ParaA, Leaf("listItem"), Leaf("paragraph")>>)}

\* the level-2 heading "Decisions", alone and in a document
DecisionsHeading ==
    [type |-> "heading", attrs |-> [level |-> 2],
     content |-> <<Text(<<"D", "e", "c", "i", "s", "i", "o", "n", "s">>)>>]

Headings == {DecisionsHeading, Node("doc", <<DecisionsHeading, ParaA>>)}

Trees ==
    MarkedLeaves \cup InlineBlocks \cup Lists \cup NestedLists \cup Docs
        \cup TextBlocks \cup EmptyNodes \cup Headings

\* values that are no node object, as json.loads can hand them over
NonTrees ==
    {PyNone, PyInt(<<"4", "2">>), PyStr(<<" ", "a", " ">>),
     PyList(<<PyInt(<<"1">>), PyStr(<<"a">>)>>)}

RenderInputs == {PyDict(t) : t \in Trees} \cup NonTrees

-----------------------------------------------------------------------------
(* prosemirror_to_markdown as a call *)

Unset == [kind |-> "unset"]

\* main.py is not running
MainIdle ==
    /\ args = Unset
    /\ environ = Unset
    /\ documents = <<>>
    /\ doc_index = 0
    /\ processed_ids = {}
    /\ tracking_file = Unset
    /\ processed_count = 0
    /\ skipped_count = 0
    /\ ai_result = Unset
    /\ saved_paths = {}
    /\ files = {}
    /\ log = <<>>

InitRender ==
    /\ pc = "render"
    /\ input \in RenderInputs
    /\ calls = <<>>
    /\ document = Unset
    /\ response = Unset
    /\ transcript = Unset
    /\ enhanced_notes = Unset
    /\ manual_rendered = Unset
    /\ manual_markdown = Unset
    /\ sections = <<>>
    /\ result = Unset
    /\ MainIdle

Render ==
    /\ pc = "render"
    /\ calls' = IF input.kind = "dict"
                THEN call_log(input.node, NoContext, <<>>)
                ELSE <<>>
    /\ result' = PyStr(prosemirror_to_markdown(input))
    /\ pc' = "rendered"
    /\ UNCHANGED <<input, document, response, transcript, enhanced_notes,
                   manual_rendered, manual_markdown, sections>>
    /\ UNCHANGED mainvars

NextRender == Render

SpecRender == InitRender /\ [][NextRender]_vars

-----------------------------------------------------------------------------
(* get_document_transcript *)

\* the literals of the source
H_ME == <<"*", "*", "M", "e", ":", "*", "*", " ">>
H_SYSTEM == <<"*", "*", "S", "y", "s", "t", "e", "m", ":", "*", "*", " ">>
H_TRANSCRIPT == <<"#", " ", "T", "r", "a", "n", "s", "c", "r", "i", "p", "t", "\n", "\n">>
H_ENHANCED == <<"#", " ", "E", "n", "h", "a", "n", "c", "e", "d", " ", "N", "o", "t", "e", "s", " ", "(", "b", "y", " ", "G", "r", "a", "n", "o", "l", "a", ")", "\n", "\n">>
H_MANUAL == <<"#", " ", "M", "a", "n", "u", "a", "l", " ", "N", "o", "t", "e", "s", "\n", "\n">>
\* the separator with single newlines around the rule
SEPARATOR_single == <<"\n", "-", "-", "-", "\n">>

SEPARATOR == <<"\n", "\n", "-", "-", "-", "\n", "\n">>

\* bool(v) of a Python value
Truthy(v) ==
    CASE v.kind = "none" -> FALSE
      [] v.kind = "str" -> v.s # <<>>
      [] v.kind = "dict" -> DOMAIN v.node # {}
      [] v.kind = "list" -> v.items # <<>>
      [] v.kind = "int" -> v.digits # <<"0">>

\* a or b
Or(a, b) == IF Truthy(a) THEN a ELSE b

\* one pass of the loop that keeps a segment without text
format_segment_keeps_empty(segment) ==
    LET source == Get(segment, "source", "")
        text == strip(Get(segment, "text", <<>>))
    IN  IF source = "microphone" THEN <<H_ME \o text>>
        ELSE IF source = "system" THEN <<H_SYSTEM \o text>>
        ELSE <<text>>

\* one pass of the loop over the segments: the line the segment adds, if any
format_segment(segment) ==
    LET source == Get(segment, "source", "")
        text == strip(Get(segment, "text", <<>>))
    IN  IF text = <<>> THEN <<>>
        ELSE IF source = "microphone" THEN <<H_ME \o text>>
        ELSE IF source = "system" THEN <<H_SYSTEM \o text>>
        ELSE <<text>>

\* formatted_lines after the loop
RECURSIVE format_lines(_)
format_lines(transcript_segments) ==
    IF transcript_segments = <<>> THEN <<>>
    ELSE format_segment(Head(transcript_segments))
            \o format_lines(Tail(transcript_segments))

\* rsp is what requests.post and response.json() come to: an HTTP error status,
\* another failure, or the decoded segments
get_document_transcript(rsp) ==
    IF rsp.kind = "http_error" THEN PyNone
    ELSE IF rsp.kind = "error" THEN PyNone
    ELSE IF rsp.segments = <<>> THEN PyNone
    ELSE PyStr(join(NL2, format_lines(rsp.segments)))

-----------------------------------------------------------------------------
(* get_document_as_markdown *)

MIN_MANUAL_LEN == 10

Raised(exc) == [kind |-> "raise", exc |-> exc]

\* document.get(k, default) on Python values
DocGet(d, k, default) == IF k \in DOMAIN d THEN d[k] ELSE default

doc_id_of(d) == Or(DocGet(d, "id", PyNone), DocGet(d, "document_id", PyNone))

manual_content_of(d) ==
    Or(Or(DocGet(d, "notes", PyNone), DocGet(d, "content", PyNone)),
       DocGet(d, "prosemirror_content", PyNone))

\* lines 368-376: manual_markdown before it is trimmed
render_manual(manual_content) ==
    IF manual_content.kind = "dict" THEN prosemirror_to_markdown(manual_content)
    ELSE IF manual_content.kind = "str" THEN
        LET loaded == json_loads(manual_content.s)
        IN  IF loaded.ok THEN prosemirror_to_markdown(loaded.value)
            ELSE manual_content.s
    ELSE <<>>

\* the inclusion test without the comparison with the enhanced notes
manual_included_no_dedup(manual, enhanced) ==
    /\ manual # <<>>
    /\ Len(manual) > MIN_MANUAL_LEN

\* the inclusion test with the length threshold off by one
manual_included_from_threshold(manual, enhanced) ==
    /\ manual # <<>>
    /\ Len(manual) >= MIN_MANUAL_LEN
    /\ (enhanced = <<>> \/ manual # strip(enhanced))

\* lines 382-384: whether the Manual Notes section is appended
manual_included(manual, enhanced) ==
    /\ manual # <<>>
    /\ Len(manual) > MIN_MANUAL_LEN
    /\ (enhanced = <<>> \/ manual # strip(enhanced))

\* lines 343-348
FetchTranscript ==
    /\ pc = "transcript"
    /\ LET doc_id == doc_id_of(document)
           fetched == IF Truthy(doc_id) THEN get_document_transcript(response)
                      ELSE PyNone
       IN  /\ transcript' = fetched
           /\ sections' = IF Truthy(fetched)
                          THEN Append(sections, H_TRANSCRIPT \o fetched.s)
                          ELSE sections
    /\ pc' = "enhanced"
    /\ UNCHANGED <<input, calls, document, response, enhanced_notes,
                   manual_rendered, manual_markdown, result>>
    /\ UNCHANGED mainvars

\* lines 351-355; None has no strip()
EnhancedNotes ==
    /\ pc = "enhanced"
    /\ LET notes == DocGet(document, "notes_markdown", PyStr(<<>>))
       IN  IF notes.kind = "str"
           THEN /\ enhanced_notes' = PyStr(strip(notes.s))
                /\ sections' = IF strip(notes.s) # <<>>
                               THEN Append(sections, H_ENHANCED \o strip(notes.s))
                               ELSE sections
                /\ pc' = "manual"
                /\ UNCHANGED result
           ELSE /\ result' = Raised("AttributeError")
                /\ pc' = "raised"
                /\ UNCHANGED <<enhanced_notes, sections>>
    /\ UNCHANGED <<input, calls, document, response, transcript,
                   manual_rendered, manual_markdown>>
    /\ UNCHANGED mainvars

\* lines 358-389
ManualNotes ==
    /\ pc = "manual"
    /\ LET manual_content == manual_content_of(document)
           rendered == render_manual(manual_content)
       IN  IF Truthy(manual_content)
           THEN /\ manual_rendered' = PyStr(rendered)
                /\ manual_markdown' = PyStr(strip(rendered))
                /\ sections' = IF manual_included(strip(rendered), enhanced_notes.s)
                               THEN Append(sections, H_MANUAL \o strip(rendered))
                               ELSE sections
           ELSE UNCHANGED <<manual_rendered, manual_markdown, sections>>
    /\ pc' = "combine"
    /\ UNCHANGED <<input, calls, document, response, transcript,
                   enhanced_notes, result>>
    /\ UNCHANGED mainvars

\* the fallback reading text before notes_plain
fallback_text_first(d) ==
    Or(DocGet(d, "text", PyStr(<<>>)), DocGet(d, "notes_plain", PyStr(<<>>)))

\* line 399: the plain-text field returned when there is no section
fallback_of(d) ==
    Or(DocGet(d, "notes_plain", PyStr(<<>>)), DocGet(d, "text", PyStr(<<>>)))

\* the plain-text fallback preferred to the sections
Combine_fallback_preferred ==
    /\ pc = "combine"
    /\ result' = IF Truthy(fallback_of(document)) THEN fallback_of(document)
                 ELSE IF sections # <<>> THEN PyStr(join(SEPARATOR, sections))
                 ELSE fallback_of(document)
    /\ pc' = "done"
    /\ UNCHANGED <<input, calls, document, response, transcript, enhanced_notes,
                   manual_rendered, manual_markdown, sections>>
    /\ UNCHANGED mainvars

\* lines 392-402
Combine ==
    /\ pc = "combine"
    /\ result' = IF sections # <<>> THEN PyStr(join(SEPARATOR, sections))
                 ELSE fallback_of(document)
    /\ pc' = "done"
    /\ UNCHANGED <<input, calls, document, response, transcript, enhanced_notes,
                   manual_rendered, manual_markdown, sections>>
    /\ UNCHANGED mainvars

-----------------------------------------------------------------------------
(* The document records and transcript answers the merger is run on *)

EmptyDict == [k \in {} |-> PyNone]

\* the dict with key k when v is given, the empty dict when the key is absent
Field(k, v) == IF v = Unset THEN EmptyDict ELSE (k :> v)

LongText == Repeat("a", MIN_MANUAL_LEN + 1)
ShortText == Repeat("a", MIN_MANUAL_LEN)

Segment(source, text) == [source |-> source, text |-> text]

Responses ==
    {[kind |-> "http_error"], [kind |-> "error"],
     [kind |-> "ok", segments |-> <<>>],
     [kind |-> "ok", segments |-> <<Segment("system", <<>>)>>],
     [kind |-> "ok", segments |-> <<Segment("speaker", <<"T">>)>>],
     [kind |-> "ok", segments |->
        <<Segment("microphone", <<"h", "i">>), Segment("system", <<>>)>>]}

\* id and document_id, with the answer of the endpoint where one of them is set
IdParts ==
    {[ids |-> EmptyDict, rsp |-> [kind |-> "error"]]}
    \cup {[ids |-> Field(k, PyStr(<<"d">>)), rsp |-> r] :
            k \in {"id", "document_id"}, r \in Responses}

EnhancedValues ==
    {Unset, PyNone, PyStr(<<>>), PyStr(<<" ", "\n">>), PyStr(<<"E">>),
     PyStr(<<" ", "E", "\n">>), PyStr(LongText), PyStr(<<" ">> \o LongText)}

\* manual content given as a tree
ManualTrees ==
    {PyDict(EmptyDict),
     PyDict(Node("doc", <<Node("paragraph", <<Text(<<"E">>)>>)>>)),
     PyDict(Node("doc", <<Node("paragraph", <<Text(ShortText)>>)>>)),
     PyDict(Node("doc", <<Node("paragraph", <<Text(LongText)>>)>>)),
     PyDict(Node("doc", <<Node("paragraph", <<Text(LongText)>>),
                          Node("paragraph", <<Text(<<"B">>)>>)>>))}

\* manual content given as a string: plain text, JSON that is no object, and
\* JSON-encoded trees
ManualStrings ==
    {PyStr(<<>>), PyStr(<<"E">>), PyStr(ShortText), PyStr(LongText),
     PyStr(<<" ">> \o LongText \o <<"\n">>),
     PyStr(Repeat("1", MIN_MANUAL_LEN + 1)),
     PyStr(<<"\"">> \o LongText \o <<"\"">>),
     PyStr(<<"[", "1", ",", "2", ",", "3", ",", "4", ",", "5", ",", "6", "]">>),
     PyStr(<<"{", "}">>),
     PyStr(<<"{", "\"", "t", "e", "x", "t", "\"", ":", "\"">> \o LongText
             \o <<"\"", "}">>),
     PyStr(<<"{", "\"", "t", "e", "x", "t", "\"", ":">> \o LongText)}

\* notes, content and prosemirror_content
ManualParts ==
    {Field("notes", v) : v \in {Unset, PyNone, PyInt(<<"7">>)}
                               \cup ManualTrees \cup ManualStrings}
    \cup {Field("notes", n) @@ Field("content", c) @@ Field("prosemirror_content", p) :
            n \in {Unset, PyStr(<<>>), PyDict(EmptyDict)},
            c \in {Unset, PyNone, PyDict(Node("paragraph", <<Text(LongText)>>))},
            p \in {Unset, PyStr(<<>>), PyStr(<<"b">> \o LongText)}}

FallbackParts ==
    {Field("notes_plain", n) @@ Field("text", t) :
        n \in {Unset, PyNone, PyStr(<<>>), PyStr(<<"P">>)},
        t \in {Unset, PyNone, PyStr(<<>>), PyStr(<<"X">>)}}

InitMerge ==
    /\ pc = "transcript"
    /\ \E i \in IdParts, e \in EnhancedValues, m \in ManualParts, f \in FallbackParts :
          /\ document = i.ids @@ Field("notes_markdown", e) @@ m @@ f
          /\ response = i.rsp
    /\ input = Unset
    /\ calls = <<>>
    /\ transcript = Unset
    /\ enhanced_notes = Unset
    /\ manual_rendered = Unset
    /\ manual_markdown = Unset
    /\ sections = <<>>
    /\ result = Unset
    /\ MainIdle

NextMerge == FetchTranscript \/ EnhancedNotes \/ ManualNotes \/ Combine

Spec == InitMerge /\ [][NextMerge]_vars

-----------------------------------------------------------------------------
(* get_document_transcript as a call *)

MaxSegments == 2  \* segments in one answer of the transcript endpoint

Segments ==
    {Segment("microphone", <<"h", "i">>), Segment("system", <<"y", "o">>),
     Segment("system", <<>>), Segment("speaker", <<"T">>),
     Segment("microphone", <<" ", "a", " ">>), Segment("speaker", <<" ", "\n">>),
     [text |-> <<"n">>], [source |-> "microphone"]}

TranscriptResponses ==
    {[kind |-> "http_error"], [kind |-> "error"]}
    \cup {[kind |-> "ok", segments |-> g] : g \in SeqUpTo(Segments, MaxSegments)}

InitTranscript ==
    /\ pc = "fetch"
    /\ response \in TranscriptResponses
    /\ input = Unset
    /\ calls = <<>>
    /\ document = Unset
    /\ transcript = Unset
    /\ enhanced_notes = Unset
    /\ manual_rendered = Unset
    /\ manual_markdown = Unset
    /\ sections = <<>>
    /\ result = Unset
    /\ MainIdle

GetTranscript ==
    /\ pc = "fetch"
    /\ result' = get_document_transcript(response)
    /\ pc' = "fetched"
    /\ UNCHANGED <<input, calls, document, response, transcript, enhanced_notes,
                   manual_rendered, manual_markdown, sections>>
    /\ UNCHANGED mainvars

NextTranscript == GetTranscript

SpecTranscript == InitTranscript /\ [][NextTranscript]_vars

-----------------------------------------------------------------------------
(* main.py: the loop of main over the fetched documents, process_meeting,    *)
(* OutputManager.save_all and ProcessedMeetingsTracker.  The conversion of   *)
(* a document is the merger above, run on the document of the iteration.     *)

MaxDocuments == 2     \* documents fetched in one run

MIN_NOTES_LEN == 10

\* str(n) for the indices of the loop
Digit(n) == <<"0", "1", "2", "3", "4", "5", "6", "7", "8", "9">>[n + 1]

\* main, line 250: doc.get('id') or doc.get('document_id', f'unknown_{i}')
main_doc_id(doc, n) ==
    Or(DocGet(doc, "id", PyNone),
       DocGet(doc, "document_id",
              PyStr(<<"u", "n", "k", "n", "o", "w", "n", "_", Digit(n)>>)))

\* process_meeting, line 63
meeting_doc_id(doc) ==
    Or(DocGet(doc, "id", PyNone),
       DocGet(doc, "document_id", PyStr(<<"u", "n", "k", "n", "o", "w", "n">>)))

Range(seq) == {seq[n] : n \in 1..Len(seq)}

\* list(a_set): the elements of the set, each once, in an order the set decides
Listings(S) == {order \in [1..Cardinality(S) -> S] : Range(order) = S}

\* ProcessedMeetingsTracker._load_processed_ids: the set of the elements of
\* the array processed_document_ids of the file, the empty set without a file
load_processed_ids(file) == IF file.exists THEN Range(file.ids) ELSE {}

\* ProcessedMeetingsTracker._save_processed_ids: the contents the file can
\* have after the write, its array holding list(self.processed_ids)
save_processed_ids(ids) == {[exists |-> TRUE, ids |-> order] : order \in Listings(ids)}

\* is_processed finding no document in the set
is_processed_never(ids, document_id) == FALSE

\* is_processed
is_processed(ids, document_id) == document_id \in ids

\* mark_processed without the write to the tracking file
mark_processed_unsaved(ids, file, document_id) ==
    {[processed_ids |-> ids \cup {document_id}, tracking_file |-> file]}

\* mark_processed: the set after add, with each file _save_processed_ids can
\* leave for it
mark_processed(ids, file, document_id) ==
    {[processed_ids |-> ids \cup {document_id}, tracking_file |-> written] :
        written \in save_processed_ids(ids \cup {document_id})}

\* line 77 taking every string for notes
notes_missing_or_short_never(markdown_notes) == FALSE

\* line 77: not markdown_notes or len(markdown_notes.strip()) < 10
notes_missing_or_short(markdown_notes) ==
    \/ ~Truthy(markdown_notes)
    \/ Len(strip(markdown_notes.s)) < MIN_NOTES_LEN

\* every element of the list is a dict with the keys named
ItemsHave(v, keys) ==
    /\ v.kind = "list"
    /\ \A n \in 1..Len(v.items) :
          v.items[n].kind = "dict" /\ keys \subseteq DOMAIN v.items[n].node

\* MeetingProcessor.format_for_slack raises: summary["overview"], the loop over
\* dev_tickets under its guard, the loop over pm_items
format_for_slack_raises(summary, pm_items, dev_tickets) ==
    \/ summary.kind # "dict"
    \/ "overview" \notin DOMAIN summary.node
    \/ Truthy(dev_tickets) /\ ~ItemsHave(dev_tickets, {"type", "title"})
    \/ pm_items.kind \in {"none", "int"}
    \/ Truthy(pm_items) /\ ~ItemsHave(pm_items, {"title"})

\* OutputManager.save_all: the kinds of output written, in order, and whether
\* the call raised; MeetingProcessor() of line 263 reads ANTHROPIC_API_KEY
save_all(res, env) ==
    IF res.kind # "dict" THEN [raised |-> TRUE, written |-> <<>>]
    ELSE LET pm == DocGet(res.node, "pm_action_items", PyNone)
             dev == DocGet(res.node, "dev_tickets", PyNone)
             summary == DocGet(res.node, "summary", PyNone)
             lists == (IF Truthy(pm) THEN <<"pm_tasks">> ELSE <<>>)
                        \o (IF Truthy(dev) THEN <<"dev_tickets">> ELSE <<>>)
         IN  IF ~Truthy(summary) THEN [raised |-> FALSE, written |-> lists]
             ELSE IF \/ ~env.ANTHROPIC_API_KEY
                     \/ format_for_slack_raises(
                            summary,
                            DocGet(res.node, "pm_action_items", PyList(<<>>)),
                            DocGet(res.node, "dev_tickets", PyList(<<>>)))
             THEN [raised |-> TRUE, written |-> lists]
             ELSE [raised |-> FALSE, written |-> Append(lists, "summary")]

\* process_meeting, lines 105-106: len() of a value that has no length
count_raises(res) ==
    \/ DocGet(res.node, "pm_action_items", PyList(<<>>)).kind \in {"none", "int"}
    \/ DocGet(res.node, "dev_tickets", PyList(<<>>)).kind \in {"none", "int"}

Event(n, what) == [doc |-> n, event |-> what]

\* the locals of get_document_as_markdown before the call
MergerReset ==
    /\ transcript' = Unset
    /\ enhanced_notes' = Unset
    /\ manual_rendered' = Unset
    /\ manual_markdown' = Unset
    /\ sections' = <<>>
    /\ result' = Unset

\* what the transcript endpoint answers during a run: it holds a transcript
\* for the document d and fails for the others
MainResponses(doc) ==
    IF doc_id_of(doc) = PyStr(<<"d">>)
    THEN {[kind |-> "ok", segments |-> <<Segment("speaker", <<"T">>)>>]}
    ELSE {[kind |-> "error"]}

\* main, lines 278-283: the loop is over
Finish ==
    /\ pc = "loop"
    /\ doc_index > Len(documents)
    /\ pc' = "complete"
    /\ UNCHANGED <<input, calls, document, response, transcript, enhanced_notes,
                   manual_rendered, manual_markdown, sections, result, mainvars>>

\* main, lines 250-258: the document is already processed
SkipProcessed ==
    /\ pc = "loop"
    /\ doc_index <= Len(documents)
    /\ ~args.force
    /\ is_processed(processed_ids, main_doc_id(documents[doc_index], doc_index))
    /\ skipped_count' = skipped_count + 1
    /\ log' = Append(log, Event(doc_index, "already_processed"))
    /\ doc_index' = doc_index + 1
    /\ UNCHANGED <<pc, input, calls, document, response, transcript, enhanced_notes,
                   manual_rendered, manual_markdown, sections, result, args,
                   environ, documents, processed_ids, tracking_file,
                   processed_count, ai_result, saved_paths, files>>

\* main, lines 250-267, and process_meeting up to the call of line 72
StartMeeting ==
    /\ pc = "loop"
    /\ doc_index <= Len(documents)
    /\ \/ args.force
       \/ ~is_processed(processed_ids, main_doc_id(documents[doc_index], doc_index))
    /\ document' = documents[doc_index]
    /\ response' \in MainResponses(documents[doc_index])
    /\ MergerReset
    /\ ai_result' = Unset
    /\ saved_paths' = {}
    /\ log' = Append(log, Event(doc_index, "processing"))
    /\ pc' = "transcript"
    /\ UNCHANGED <<input, calls, args, environ, documents, doc_index,
                   processed_ids, tracking_file, processed_count, skipped_count,
                   files>>

\* process_meeting returns {} after printing a message
ReturnNothing(message) ==
    /\ saved_paths' = {}
    /\ log' = log \o message
    /\ pc' = "returned"
    /\ UNCHANGED <<input, calls, document, response, transcript, enhanced_notes,
                   manual_rendered, manual_markdown, sections, result, args,
                   environ, documents, doc_index, processed_ids, tracking_file,
                   processed_count, skipped_count, files>>

\* a failed conversion reported and raised again, which ends the run
ConversionFailed_aborts ==
    /\ pc = "raised"
    /\ log' = log \o <<Event(doc_index, "error_converting"),
                        Event(doc_index, "traceback")>>
    /\ pc' = "crashed"
    /\ UNCHANGED <<input, calls, document, response, transcript, enhanced_notes,
                   manual_rendered, manual_markdown, sections, result, args,
                   environ, documents, doc_index, processed_ids, tracking_file,
                   processed_count, skipped_count, ai_result, saved_paths, files>>

\* process_meeting, lines 73-75: get_document_as_markdown raised
ConversionFailed ==
    /\ pc = "raised"
    /\ ReturnNothing(<<Event(doc_index, "error_converting")>>)
    /\ UNCHANGED ai_result

\* process_meeting, lines 77-79
NotesTooShort ==
    /\ pc = "done"
    /\ notes_missing_or_short(result)
    /\ ReturnNothing(<<Event(doc_index, "skipping")>>)
    /\ UNCHANGED ai_result

\* what processor.process_meeting_notes returns: any value json.loads decodes
PmItem == PyDict([title |-> PyStr(<<"t">>)])
DevTicket == PyDict([title |-> PyStr(<<"t">>), type |-> PyStr(<<"b">>)])
Summary == PyDict([overview |-> PyStr(<<"o">>)])

ExtractionResults ==
    {PyDict(EmptyDict),
     PyDict([pm_action_items |-> PyList(<<PmItem>>)]),
     PyDict([pm_action_items |-> PyList(<<PmItem>>),
             dev_tickets |-> PyList(<<DevTicket>>), summary |-> Summary]),
     PyDict([pm_action_items |-> PyNone, dev_tickets |-> PyList(<<DevTicket>>)]),
     PyDict([pm_action_items |-> PyList(<<PmItem>>),
             summary |-> PyDict([key_decisions |-> PyList(<<>>)])]),
     PyList(<<>>)}

\* process_meeting, lines 84-86: the extraction returned
Extract ==
    /\ pc = "done"
    /\ ~notes_missing_or_short(result)
    /\ ai_result' \in ExtractionResults
    /\ log' = Append(log, Event(doc_index, "processing_with_ai"))
    /\ pc' = "save"
    /\ UNCHANGED <<input, calls, document, response, transcript, enhanced_notes,
                   manual_rendered, manual_markdown, sections, result, args,
                   environ, documents, doc_index, processed_ids, tracking_file,
                   processed_count, skipped_count, saved_paths, files>>

\* process_meeting, lines 84-89: the extraction raised (the request failed, or
\* the answer was no JSON)
ExtractionFailed ==
    /\ pc = "done"
    /\ ~notes_missing_or_short(result)
    /\ ReturnNothing(<<Event(doc_index, "processing_with_ai"),
                       Event(doc_index, "error_processing")>>)
    /\ UNCHANGED ai_result

\* the output files a call of save_all leaves behind
Written(res, env, doc, n) ==
    {[doc |-> n, document_id |-> meeting_doc_id(doc), output_type |-> t] :
        t \in Range(save_all(res, env).written)}

\* process_meeting, lines 92-99: save_all returned
Save ==
    /\ pc = "save"
    /\ ~save_all(ai_result, environ).raised
    /\ files' = files \cup Written(ai_result, environ, document, doc_index)
    /\ saved_paths' = Range(save_all(ai_result, environ).written)
    /\ log' = Append(log, Event(doc_index, "saving"))
    /\ pc' = "summary"
    /\ UNCHANGED <<input, calls, document, response, transcript, enhanced_notes,
                   manual_rendered, manual_markdown, sections, result, args,
                   environ, documents, doc_index, processed_ids, tracking_file,
                   processed_count, skipped_count, ai_result>>

\* process_meeting, lines 92-102: save_all raised, after the files it had written
SaveFailed ==
    /\ pc = "save"
    /\ save_all(ai_result, environ).raised
    /\ files' = files \cup Written(ai_result, environ, document, doc_index)
    /\ saved_paths' = {}
    /\ log' = log \o <<Event(doc_index, "saving"), Event(doc_index, "error_saving")>>
    /\ pc' = "returned"
    /\ UNCHANGED <<input, calls, document, response, transcript, enhanced_notes,
                   manual_rendered, manual_markdown, sections, result, args,
                   environ, documents, doc_index, processed_ids, tracking_file,
                   processed_count, skipped_count, ai_result>>

\* process_meeting, lines 105-117
PrintSummary ==
    /\ pc = "summary"
    /\ ~count_raises(ai_result)
    /\ log' = Append(log, Event(doc_index, "processed_successfully"))
    /\ pc' = "returned"
    /\ UNCHANGED <<input, calls, document, response, transcript, enhanced_notes,
                   manual_rendered, manual_markdown, sections, result, args,
                   environ, documents, doc_index, processed_ids, tracking_file,
                   processed_count, skipped_count, ai_result, saved_paths, files>>

\* process_meeting, lines 105-106: len() raises TypeError, which nothing
\* catches: main ends with the traceback
SummaryRaised ==
    /\ pc = "summary"
    /\ count_raises(ai_result)
    /\ log' = Append(log, Event(doc_index, "traceback"))
    /\ pc' = "crashed"
    /\ UNCHANGED <<input, calls, document, response, transcript, enhanced_notes,
                   manual_rendered, manual_markdown, sections, result, args,
                   environ, documents, doc_index, processed_ids, tracking_file,
                   processed_count, skipped_count, ai_result, saved_paths, files>>

\* `if saved_paths:` holding for every document process_meeting returned from
saved_always(paths) == TRUE

\* main, line 269: `if saved_paths:`, the paths being those of the files written
saved(paths) == paths # {}

\* main, lines 269-276: process_meeting returned
AfterMeeting ==
    /\ pc = "returned"
    /\ LET doc_id == main_doc_id(documents[doc_index], doc_index)
           count == IF saved(saved_paths) THEN processed_count + 1
                    ELSE processed_count
       IN  /\ IF saved(saved_paths)
              THEN /\ \E marked \in mark_processed(processed_ids, tracking_file, doc_id) :
                        /\ processed_ids' = marked.processed_ids
                        /\ tracking_file' = marked.tracking_file
                   /\ log' = Append(log, Event(doc_index, "marked"))
              ELSE UNCHANGED <<processed_ids, tracking_file, log>>
           /\ processed_count' = count
           /\ IF ~args.all /\ count > 0
              THEN pc' = "complete" /\ UNCHANGED doc_index
              ELSE pc' = "loop" /\ doc_index' = doc_index + 1
    /\ UNCHANGED <<input, calls, document, response, transcript, enhanced_notes,
                   manual_rendered, manual_markdown, sections, result, args,
                   environ, documents, skipped_count, ai_result, saved_paths,
                   files>>

\* the documents of a run: with id, with document_id, with neither; with notes
\* long enough, with null notes, with none, with too few
MainDocuments ==
    {("id" :> PyStr(<<"d">>)) @@ ("notes_markdown" :> PyStr(LongText)),
     ("notes_plain" :> PyStr(LongText)),
     ("id" :> PyStr(<<"f">>)) @@ ("notes_markdown" :> PyNone),
     ("id" :> PyStr(<<"g">>)),
     ("document_id" :> PyStr(<<"h">>)) @@ ("notes_plain" :> PyStr(<<"P">>))}

\* the tracking file before the run: missing, or left by an earlier run
TrackingFiles ==
    {[exists |-> FALSE, ids |-> <<>>], [exists |-> TRUE, ids |-> <<PyStr(<<"d">>)>>]}

InitMain ==
    /\ pc = "loop"
    /\ args \in [all : BOOLEAN, force : BOOLEAN]
    /\ environ \in [ANTHROPIC_API_KEY : BOOLEAN]
    /\ documents \in SeqUpTo(MainDocuments, MaxDocuments) \ {<<>>}
    /\ doc_index = 1
    /\ tracking_file \in TrackingFiles
    /\ processed_ids = load_processed_ids(tracking_file)
    /\ processed_count = 0
    /\ skipped_count = 0
    /\ ai_result = Unset
    /\ saved_paths = {}
    /\ files = {}
    /\ log = <<>>
    /\ input = Unset
    /\ calls = <<>>
    /\ document = Unset
    /\ response = Unset
    /\ transcript = Unset
    /\ enhanced_notes = Unset
    /\ manual_rendered = Unset
    /\ manual_markdown = Unset
    /\ sections = <<>>
    /\ result = Unset

NextMain ==
    \/ Finish \/ SkipProcessed \/ StartMeeting
    \/ FetchTranscript \/ EnhancedNotes \/ ManualNotes \/ Combine
    \/ ConversionFailed \/ NotesTooShort \/ Extract \/ ExtractionFailed
    \/ Save \/ SaveFailed \/ PrintSummary \/ SummaryRaised \/ AfterMeeting

SpecMain == InitMain /\ [][NextMain]_vars

-----------------------------------------------------------------------------
(* A run of main after an earlier run *)

\* the meeting the earlier run fetched, which carries neither id nor
\* document_id, and which it processed and marked
EARLIER_MEETING == ("notes_markdown" :> PyStr(LongText))

\* the documents the earlier run marked, with the keys it marked them under
EarlierMarked == {[key |-> main_doc_id(EARLIER_MEETING, 1), doc |-> EARLIER_MEETING]}

\* the tracking file the earlier run left
EarlierFiles ==
    UNION {save_processed_ids({marked.key : marked \in EarlierMarked})}

InitLaterRun ==
    /\ pc = "loop"
    /\ args \in [all : BOOLEAN, force : BOOLEAN]
    /\ environ \in [ANTHROPIC_API_KEY : BOOLEAN]
    /\ documents \in SeqUpTo(MainDocuments, MaxDocuments) \ {<<>>}
    /\ doc_index = 1
    /\ tracking_file \in EarlierFiles
    /\ processed_ids = load_processed_ids(tracking_file)
    /\ processed_count = 0
    /\ skipped_count = 0
    /\ ai_result = Unset
    /\ saved_paths = {}
    /\ files = {}
    /\ log = <<>>
    /\ input = Unset
    /\ calls = <<>>
    /\ document = Unset
    /\ response = Unset
    /\ transcript = Unset
    /\ enhanced_notes = Unset
    /\ manual_rendered = Unset
    /\ manual_markdown = Unset
    /\ sections = <<>>
    /\ result = Unset

SpecLaterRun == InitLaterRun /\ [][NextMain]_vars

-----------------------------------------------------------------------------
(* ProcessedMeetingsTracker on its own: calls of mark_processed, and trackers
   constructed on the directory of an earlier one *)

MaxCalls == 3

\* the IDs main hands to the tracker: an id, a document_id, a position
TrackerIds ==
    {main_doc_id(("id" :> PyStr(<<"d">>)), 1),
     main_doc_id(("document_id" :> PyStr(<<"h">>)), 1),
     main_doc_id(EmptyDict, 1)}

Call(name, document_id) == [call |-> name, document_id |-> document_id]

\* ProcessedMeetingsTracker.__init__ on a directory with or without a file
InitTracker ==
    /\ pc = "tracker"
    /\ tracking_file \in TrackingFiles
    /\ processed_ids = load_processed_ids(tracking_file)
    /\ log = <<>>
    /\ args = Unset
    /\ environ = Unset
    /\ documents = <<>>
    /\ doc_index = 0
    /\ processed_count = 0
    /\ skipped_count = 0
    /\ ai_result = Unset
    /\ saved_paths = {}
    /\ files = {}
    /\ input = Unset
    /\ calls = <<>>
    /\ document = Unset
    /\ response = Unset
    /\ transcript = Unset
    /\ enhanced_notes = Unset
    /\ manual_rendered = Unset
    /\ manual_markdown = Unset
    /\ sections = <<>>
    /\ result = Unset

\* ProcessedMeetingsTracker.mark_processed
MarkProcessed ==
    /\ pc = "tracker"
    /\ Len(log) < MaxCalls
    /\ \E document_id \in TrackerIds :
         /\ \E marked \in mark_processed(processed_ids, tracking_file, document_id) :
              /\ processed_ids' = marked.processed_ids
              /\ tracking_file' = marked.tracking_file
         /\ log' = Append(log, Call("mark_processed", document_id))
    /\ UNCHANGED <<pc, input, calls, document, response, transcript,
                   enhanced_notes, manual_rendered, manual_markdown, sections,
                   result, args, environ, documents, doc_index,
                   processed_count, skipped_count, ai_result, saved_paths, files>>

\* ProcessedMeetingsTracker.__init__ once more, on the same directory: the
\* new tracker takes the place of the old one
NewTracker ==
    /\ pc = "tracker"
    /\ Len(log) < MaxCalls
    /\ processed_ids' = load_processed_ids(tracking_file)
    /\ log' = Append(log, Call("__init__", PyNone))
    /\ UNCHANGED <<pc, input, calls, document, response, transcript,
                   enhanced_notes, manual_rendered, manual_markdown, sections,
                   result, args, environ, documents, doc_index, tracking_file,
                   processed_count, skipped_count, ai_result, saved_paths, files>>

NextTracker == MarkProcessed \/ NewTracker

SpecTracker == InitTracker /\ [][NextTracker]_vars

-----------------------------------------------------------------------------
(* Properties of the renderer, over the invocations of process_node *)

Kind(c) == Get(c.node, "type", "")
TextOf(c) == Get(c.node, "text", <<>>)
Children(c) == Get(c.node, "content", <<>>)

\* the joined output of the children of the invocation, as it rendered them
Body(c) ==
    Concat([i \in 1..Len(Children(c)) |->
               process_node(Children(c)[i], child_context(c.node, c.list_context))])

ListKinds == {"bulletList", "orderedList"}

\* the kinds the renderer knows: those of its dispatch and "text", the kind of
\* the leaves that carry the text
RecognizedKinds ==
    {"doc", "paragraph", "heading", "bulletList", "orderedList", "listItem",
     "codeBlock", "blockquote", "hardBreak", "horizontalRule", "text"}

UnderOrderedList(c) ==
    \E i \in 1..Len(c.ancestors) : c.ancestors[i] = "orderedList"

\* the invocation is below a listItem that is a child of a list
InListItem(c) ==
    \E i \in 1..(Len(c.ancestors) - 1) :
        c.ancestors[i] \in ListKinds /\ c.ancestors[i + 1] = "listItem"

\* C1: every listItem below an orderedList renders with the prefix "1. ",
\* whatever its position among its siblings.
C1_OrderedItemsNumbered ==
    \A i \in 1..Len(calls) :
        (Kind(calls[i]) = "listItem" /\ TextOf(calls[i]) = <<>>
            /\ UnderOrderedList(calls[i]))
        => StartsWith(calls[i].out, <<"1", ".", " ">>)

\* C2: a paragraph with non-blank body inside a listItem of a list renders as
\* its body unchanged, without a trailing blank line, so an item holding the
\* paragraphs "A" and "B" has no blank line between them.
C2_ItemParagraphsBare ==
    \A i \in 1..Len(calls) :
        /\ (Kind(calls[i]) = "paragraph" /\ TextOf(calls[i]) = <<>>
                /\ InListItem(calls[i]) /\ strip(Body(calls[i])) # <<>>)
           => calls[i].out = Body(calls[i])
        /\ (calls[i].node = Node("listItem", <<ParaA, ParaB>>)
                /\ Len(calls[i].ancestors) > 0
                /\ calls[i].ancestors[Len(calls[i].ancestors)] \in ListKinds)
           => ~Contains(calls[i].out, NL2)

MarkOpen(m) ==
    CASE Get(m, "type", "") = "bold" -> <<"*", "*">>
      [] Get(m, "type", "") = "italic" -> <<"*">>
      [] Get(m, "type", "") = "code" -> <<Backtick>>
      [] Get(m, "type", "") = "link" -> <<"[">>
      [] OTHER -> <<>>

MarkClose(m) ==
    CASE Get(m, "type", "") = "bold" -> <<"*", "*">>
      [] Get(m, "type", "") = "italic" -> <<"*">>
      [] Get(m, "type", "") = "code" -> <<Backtick>>
      [] Get(m, "type", "") = "link" ->
            <<"]", "(">>
                \o (IF "attrs" \in DOMAIN m /\ "href" \in DOMAIN m.attrs
                    THEN m.attrs.href ELSE <<>>)
                \o <<")">>
      [] OTHER -> <<>>

\* the marks as nested wrappers: the last mark outermost, the first innermost
Stacked(text, marks) ==
    Concat([i \in 1..Len(marks) |-> MarkOpen(marks[Len(marks) + 1 - i])])
        \o text
        \o Concat([i \in 1..Len(marks) |-> MarkClose(marks[i])])

\* C8: a leaf with non-empty text renders as its text wrapped by its marks
\* from left to right, each mark around the result of the one before it, and a
\* mark of unknown kind changes nothing; [bold, italic] on "hi" is "***hi***".
C8_MarksStack ==
    \A i \in 1..Len(calls) :
        TextOf(calls[i]) # <<>> =>
            /\ calls[i].out = Stacked(TextOf(calls[i]), Get(calls[i].node, "marks", <<>>))
            /\ (TextOf(calls[i]) = <<"h", "i">>
                    /\ Get(calls[i].node, "marks", <<>>)
                        = <<[type |-> "bold"], [type |-> "italic"]>>)
               => calls[i].out = <<"*", "*", "*", "h", "i", "*", "*", "*">>

\* C8 witness: a leaf with a link without href inside an unknown mark was rendered
C8_Witness ==
    /\ pc = "rendered"
    /\ \E i \in 1..Len(calls) :
          /\ Get(calls[i].node, "marks", <<>>) = <<[type |-> "link"], [type |-> "underline"]>>
          /\ calls[i].out = <<"[", "h", "i", "]", "(", ")">>

\* C9 as stated: every node of a kind that is not recognized renders as the
\* joined output of its children, so that no text below it is lost.
C9_UnknownKindPassesChildren ==
    \A i \in 1..Len(calls) :
        Kind(calls[i]) \notin RecognizedKinds => calls[i].out = Body(calls[i])

\* C9 amended: every node without text of a kind that is not recognized
\* renders as the joined output of its children, in order, with no separator.
C9_UnknownKindWithoutTextPassesChildren ==
    \A i \in 1..Len(calls) :
        (Kind(calls[i]) \notin RecognizedKinds /\ TextOf(calls[i]) = <<>>)
        => calls[i].out = Body(calls[i])

\* C9 witness: a node of unknown kind rendered its two children one after the other
C9_Witness ==
    /\ pc = "rendered"
    /\ \E i \in 1..Len(calls) :
          /\ calls[i].node = Node("mystery", <<ParaA, Text(<<"B">>)>>)
          /\ calls[i].out = <<"A", "\n", "\n", "B">>

\* C10: the string returned for a node tree holds no run of three or more
\* newlines and neither starts nor ends with whitespace.
C10_NoBlankRunsTrimmed ==
    (pc = "rendered" /\ input.kind = "dict") =>
        /\ ~Contains(result.s, NL3)
        /\ result.s # <<>> =>
              /\ Head(result.s) \notin Whitespace
              /\ result.s[Len(result.s)] \notin Whitespace

\* C10 witness: the root rendered to text with a run of four newlines inside
\* and whitespace at its end, and the call returned a non-empty string
C10_Witness ==
    /\ pc = "rendered"
    /\ input.kind = "dict"
    /\ Contains(strip(calls[1].out), <<"\n", "\n", "\n", "\n">>)
    /\ calls[1].out # strip(calls[1].out)
    /\ result.s # <<>>

\* the node of the invocation has neither non-empty text nor any child
EmptyNode(c) == TextOf(c) = <<>> /\ Children(c) = <<>>

\* the kinds whose wrapper is emitted whatever the children rendered
FixedWrapperKinds ==
    {"listItem", "codeBlock", "blockquote", "hardBreak", "horizontalRule"}

ChildCall(c, k) ==
    [node |-> Children(c)[k], list_context |-> child_context(c.node, c.list_context)]

C21_BlockquoteRendered ==
    \A i \in 1..Len(calls) :
        (Kind(calls[i]) = "blockquote" /\ TextOf(calls[i]) = <<>>) =>
            LET out == calls[i].out
                body_lines == split(strip(Body(calls[i])), "\n")
                quoted == split(SubSeq(out, 1, Len(out) - 2), "\n")
            IN  /\ Len(out) >= 2
                /\ SubSeq(out, Len(out) - 1, Len(out)) = <<"\n", "\n">>
                /\ Len(quoted) = Len(body_lines)
                /\ \A k \in 1..Len(body_lines) :
                      quoted[k] = <<">", " ">> \o body_lines[k]

\* C21 witness: a blockquote of two paragraphs was rendered, the empty line
\* between them behind "> " like the others
C21_Witness ==
    /\ pc = "rendered"
    /\ \E i \in 1..Len(calls) :
          /\ calls[i].node = Node("blockquote", <<ParaA, ParaB>>)
          /\ calls[i].out = <<">", " ", "A", "\n", ">", " ", "\n",
                              ">", " ", "B", "\n", "\n">>

\* C26: a node with non-empty text, whatever its kind, its children and the
\* list context, renders as its text wrapped by its marks and nothing else:
\* none of its children is rendered, so the invocation that follows it in the
\* log is not one level below it, and the wrapper of its kind is not applied,
\* so it renders as the bare text leaf with the same text and marks does.
C26_TextNodeRendersOnlyMarkedText ==
    \A i \in 1..Len(calls) :
        TextOf(calls[i]) # <<>> =>
            LET marks == Get(calls[i].node, "marks", <<>>)
                leaf == [type |-> "text", text |-> TextOf(calls[i]), marks |-> marks]
            IN  /\ calls[i].out = Stacked(TextOf(calls[i]), marks)
                /\ calls[i].out = process_node(leaf, NoContext)
                /\ i < Len(calls) =>
                      Len(calls[i + 1].ancestors) <= Len(calls[i].ancestors)

\* C26 witness: a heading with the text "A" and a paragraph as child was
\* rendered to "A"
C26_Witness ==
    /\ pc = "rendered"
    /\ \E i \in 1..Len(calls) :
          /\ calls[i].node = [type |-> "heading", text |-> <<"A">>, content |-> <<ParaB>>]
          /\ calls[i].out = <<"A">>
          /\ Len(calls) = i

-----------------------------------------------------------------------------
(* Properties of the merger *)

\* notes_markdown as the document gives it, trimmed
TrimmedEnhanced == strip(DocGet(document, "notes_markdown", PyStr(<<>>)).s)

\* manual content was found and rendered
ManualRendered == manual_markdown # Unset

ManualSectionPresent ==
    \E i \in 1..Len(sections) : StartsWith(sections[i], H_MANUAL)

\* no section qualifies: no non-empty transcript, enhanced notes empty after
\* trimming, manual notes absent or excluded
NoSectionQualifies ==
    /\ ~Truthy(transcript)
    /\ TrimmedEnhanced = <<>>
    /\ ~ManualSectionPresent

\* C3 as stated: with no qualifying section the merger returns the empty string
\* (a None that stands for "no text" is let pass as empty here).
C3_EmptyWhenNoSection ==
    (pc = "done" /\ NoSectionQualifies) => result \in {PyStr(<<>>), PyNone}

\* C3 amended: with no qualifying section the merger returns the plain-text
\* fallback of the document: notes_plain when that is a non-empty string, else
\* the value of text, which is the empty string when text is absent; so the
\* empty string comes back when neither field holds text.
C3_FallbackWhenNoSection ==
    (pc = "done" /\ NoSectionQualifies) =>
        LET np == IF "notes_plain" \in DOMAIN document
                  THEN document.notes_plain ELSE PyStr(<<>>)
            tx == IF "text" \in DOMAIN document THEN document.text ELSE PyStr(<<>>)
        IN  /\ (np.kind = "str" /\ np.s # <<>>) => result = np
            /\ ~(np.kind = "str" /\ np.s # <<>>) => result = tx
            /\ ("notes_plain" \notin DOMAIN document /\ "text" \notin DOMAIN document)
               => result = PyStr(<<>>)

\* C3 witness: no section qualified, notes_plain was empty and text came back
C3_Witness ==
    /\ pc = "done"
    /\ NoSectionQualifies
    /\ "notes_plain" \in DOMAIN document
    /\ document.notes_plain = PyStr(<<>>)
    /\ result = PyStr(<<"X">>)

\* C4: when the manual notes, rendered and trimmed, equal the trimmed enhanced
\* notes, the merged output has no Manual Notes section.
C4_DuplicateManualSuppressed ==
    (pc = "done" /\ ManualRendered /\ manual_markdown.s = TrimmedEnhanced) =>
        /\ ~ManualSectionPresent
        /\ result.kind = "str" => ~Contains(result.s, H_MANUAL)

\* C4 witness: manual notes long enough to be included equalled the enhanced
\* notes, which came with surrounding whitespace, and the merge finished
C4_Witness ==
    /\ pc = "done"
    /\ ManualRendered
    /\ manual_markdown.s = TrimmedEnhanced
    /\ Len(manual_markdown.s) > 10
    /\ document.notes_markdown.s # TrimmedEnhanced
    /\ Contains(result.s, H_ENHANCED)

EXAMPLE ==
    <<"#", " ", "T", "r", "a", "n", "s", "c", "r", "i", "p", "t", "\n", "\n", "T", "\n", "\n", "-", "-", "-", "\n", "\n", "#", " ", "E", "n", "h", "a", "n", "c", "e", "d", " ", "N", "o", "t", "e", "s", " ", "(", "b", "y", " ", "G", "r", "a", "n", "o", "l", "a", ")", "\n", "\n", "E">>

Titles == <<H_TRANSCRIPT, H_ENHANCED, H_MANUAL>>

TitleIndex(section) == CHOOSE k \in 1..3 : StartsWith(section, Titles[k])

\* the sections one after the other with the separator line between them
RECURSIVE Separated(_)
Separated(parts) ==
    IF Len(parts) = 1 THEN parts[1]
    ELSE parts[1] \o <<"\n", "\n", "-", "-", "-", "\n", "\n">> \o Separated(Tail(parts))

\* C5: a merged output built from sections holds them in the order Transcript,
\* Enhanced Notes (by Granola), Manual Notes, each at most once and with
\* content that is not blank, joined by exactly "\n\n---\n\n"; transcript "T",
\* enhanced notes "E" and manual notes rendering to "E" give
\* "# Transcript\n\nT\n\n---\n\n# Enhanced Notes (by Granola)\n\nE".
C5_SectionsOrderedAndSeparated ==
    (pc = "done" /\ sections # <<>>) =>
        /\ \A i \in 1..Len(sections) :
              \E k \in 1..3 :
                  /\ StartsWith(sections[i], Titles[k])
                  /\ strip(SubSeq(sections[i], Len(Titles[k]) + 1, Len(sections[i]))) # <<>>
        /\ \A i, j \in 1..Len(sections) :
              i < j => TitleIndex(sections[i]) < TitleIndex(sections[j])
        /\ result = PyStr(Separated(sections))
        /\ (transcript = PyStr(<<"T">>) /\ TrimmedEnhanced = <<"E">>
                /\ ManualRendered /\ manual_markdown.s = <<"E">>)
           => result.s = EXAMPLE

\* C5 witness: the merge of transcript "T", enhanced notes "E" and manual notes
\* rendering to "E" finished
C5_Witness ==
    /\ pc = "done"
    /\ transcript = PyStr(<<"T">>)
    /\ TrimmedEnhanced = <<"E">>
    /\ ManualRendered
    /\ manual_markdown.s = <<"E">>
    /\ manual_content_of(document).kind = "dict"
    /\ Len(sections) = 2

\* C6: the Manual Notes section is in the merged output exactly when the
\* rendered, trimmed manual text is longer than 10 characters and differs from
\* the trimmed enhanced notes, also when there is no other section.
C6_ManualIncludedIffLongAndNew ==
    pc = "done" =>
        /\ ManualSectionPresent <=>
              /\ ManualRendered
              /\ Len(manual_markdown.s) > 10
              /\ manual_markdown.s # TrimmedEnhanced
        /\ ManualSectionPresent =>
              /\ sections[Len(sections)] = H_MANUAL \o manual_markdown.s
              /\ Contains(result.s, H_MANUAL \o manual_markdown.s)

\* C6 witness: manual text of exactly 10 characters was the only content of
\* the document and the merge finished without a Manual Notes section
C6_Witness ==
    /\ pc = "done"
    /\ ManualRendered
    /\ Len(manual_markdown.s) = 10
    /\ ~Truthy(transcript)
    /\ TrimmedEnhanced = <<>>
    /\ sections = <<>>

\* the string is no JSON, or JSON that is no node object
NotATree(s) == ~json_loads(s).ok \/ json_loads(s).value.kind # "dict"

\* C7: for manual content that is a string which does not parse as a rich-text
\* tree (no JSON, or JSON that is no object) the merge does not raise and the
\* manual text it uses, before trimming, is the raw string.
C7_UnparseableManualKeptRaw ==
    (pc \in {"combine", "done"} /\ manual_content_of(document).kind = "str"
        /\ Truthy(manual_content_of(document))
        /\ NotATree(manual_content_of(document).s))
    => manual_rendered = manual_content_of(document)

\* the optional fields of a document record that hold note content
OptionalFields ==
    {"notes_markdown", "notes", "content", "prosemirror_content",
     "notes_plain", "text"}

\* the field is absent, null or empty
AbsentNullOrEmpty(d, k) ==
    k \notin DOMAIN d \/ d[k] \in {PyNone, PyStr(<<>>), PyDict(EmptyDict)}

\* C12: for every document record whose optional fields are each absent, null
\* or empty, get_document_as_markdown returns without raising and what it
\* returns signals that there is no content.
C12_EmptyFieldsGiveNoContent ==
    (\A k \in OptionalFields : AbsentNullOrEmpty(document, k)) =>
        /\ pc # "raised"
        /\ (pc = "done" /\ ~Truthy(transcript)) => result \in {PyStr(<<>>), PyNone}

\* the transcript of the document is missing: no id to ask for, an HTTP error
\* status, another failure of the request, or an answer without segments
TranscriptMissing ==
    \/ ~Truthy(doc_id_of(document))
    \/ response.kind \in {"http_error", "error"}
    \/ response.kind = "ok" /\ response.segments = <<>>

\* C14: when the transcript of the document is missing, the merger raises
\* nothing, emits no Transcript section and returns what the remaining
\* sections give: their join, or the plain-text fallback when there is none.
C14_MissingTranscriptSkipped ==
    (TranscriptMissing /\ pc # "transcript") =>
        /\ pc # "raised"
        /\ transcript = PyNone
        /\ \A i \in 1..Len(sections) : ~StartsWith(sections[i], H_TRANSCRIPT)
        /\ pc = "done" =>
              result = IF sections # <<>> THEN PyStr(join(SEPARATOR, sections))
                       ELSE fallback_of(document)

\* the field holds no text: it is absent, null or the empty string
HoldsNoText(d, k) == k \notin DOMAIN d \/ d[k] \in {PyNone, PyStr(<<>>)}

\* C15: when no section qualifies the merger returns the plain-text fallback,
\* notes_plain if that is non-empty and else text, and the empty string only
\* when neither field holds text; when a section qualifies it returns the
\* joined sections, which start with a section title, and never the fallback.
C15_FallbackOnlyWithoutSections ==
    pc = "done" =>
        LET np == DocGet(document, "notes_plain", PyStr(<<>>))
            tx == DocGet(document, "text", PyStr(<<>>))
        IN  /\ NoSectionQualifies =>
                 /\ result = IF np.kind = "str" /\ np.s # <<>> THEN np ELSE tx
                 /\ result = PyStr(<<>>) =>
                       HoldsNoText(document, "notes_plain")
                       /\ HoldsNoText(document, "text")
            /\ ~NoSectionQualifies =>
                 /\ sections # <<>>
                 /\ result = PyStr(join(SEPARATOR, sections))
                 /\ \E t \in {H_TRANSCRIPT, H_ENHANCED, H_MANUAL} :
                       StartsWith(result.s, t)

\* C15 witness: one merge returned notes_plain for want of a section, another
\* returned its only section although notes_plain and text were set
C15_Witness ==
    /\ pc = "done"
    /\ DocGet(document, "notes_plain", PyNone) = PyStr(<<"P">>)
    /\ DocGet(document, "text", PyNone) = PyStr(<<"X">>)
    /\ \/ NoSectionQualifies /\ result = PyStr(<<"P">>)
       \/ sections = <<H_ENHANCED \o <<"E">> >> /\ result = PyStr(H_ENHANCED \o <<"E">>)

-----------------------------------------------------------------------------
(* Properties of the transcript *)

\* the label a line of the transcript starts with
SpeakerLabel(segment) ==
    IF Get(segment, "source", "") = "microphone"
    THEN <<"*", "*", "M", "e", ":", "*", "*", " ">>
    ELSE IF Get(segment, "source", "") = "system"
    THEN <<"*", "*", "S", "y", "s", "t", "e", "m", ":", "*", "*", " ">>
    ELSE <<>>

TrimmedText(segment) == strip(Get(segment, "text", <<>>))

HI_AND_EMPTY == <<Segment("microphone", <<"h", "i">>), Segment("system", <<>>)>>

\* C13: the transcript of a non-empty sequence of segments holds one line for
\* each segment whose trimmed text is not empty and none for the others, in
\* the order of the segments: "**Me:** " and the text for a microphone
\* segment, "**System:** " and the text for a system segment, the text alone
\* for any other source; the lines are joined with one blank line.  The
\* segments (microphone, "hi"), (system, "") give "**Me:** hi".
C13_TranscriptLines ==
    (pc = "fetched" /\ response.kind = "ok" /\ response.segments # <<>>) =>
        LET kept == SelectSeq(response.segments,
                              LAMBDA g : TrimmedText(g) # <<>>)
            lines == [i \in 1..Len(kept) |->
                         SpeakerLabel(kept[i]) \o TrimmedText(kept[i])]
        IN  /\ result = PyStr(join(<<"\n", "\n">>, lines))
            /\ response.segments = HI_AND_EMPTY =>
                  result.s = <<"*", "*", "M", "e", ":", "*", "*", " ", "h", "i">>

\* C13 witness: the call returned the transcript of a microphone segment
\* followed by a segment without text
C13_Witness ==
    /\ pc = "fetched"
    /\ response.kind = "ok"
    /\ response.segments = HI_AND_EMPTY
    /\ result = PyStr(<<"*", "*", "M", "e", ":", "*", "*", " ", "h", "i">>)

-----------------------------------------------------------------------------
(* Properties of the run of main over the fetched documents *)

\* what the run logged for the n-th document
EventsOf(n) == {log[k].event : k \in {j \in 1..Len(log) : log[j].doc = n}}

\* the iterations of the loop so far, one per document taken from the list
Visits ==
    SelectSeq(log, LAMBDA ev : ev.event \in {"processing", "already_processed"})

\* the messages of the three except clauses of process_meeting
FailureEvents == {"error_converting", "error_processing", "error_saving"}

Failed(n) == EventsOf(n) \cap FailureEvents # {}

\* what the step added to the log
Logged == SubSeq(log', Len(log) + 1, Len(log'))

TrackerUnchanged ==
    /\ processed_ids' = processed_ids
    /\ tracking_file' = tracking_file
    /\ processed_count' = processed_count

\* the step in which a conversion, an extraction or a saving fails hands {}
\* back to main and leaves the tracker alone
FailureStep ==
    (\E k \in 1..Len(Logged) : Logged[k].event \in FailureEvents) =>
        /\ pc' = "returned"
        /\ saved_paths' = {}
        /\ TrackerUnchanged
        /\ doc_index' = doc_index

\* after a document that gave no saved paths main goes on with the next
\* index, the tracker, the flags and the list of documents as they were
ContinueStep ==
    (pc = "returned" /\ saved_paths = {}) =>
        /\ pc' = "loop"
        /\ doc_index' = doc_index + 1
        /\ TrackerUnchanged
        /\ <<args, environ, documents>>' = <<args, environ, documents>>

\* C16: in a run with --all a failure while converting, extracting or saving
\* a document does not abort the batch.  The failing step returns to main
\* with nothing saved and the tracker untouched, main goes on with the next
\* document, and the failed document is never marked.  The loop takes the
\* documents one by one in the order fetched, each at most once, and when it
\* is over it has taken every document once.
C16_FailureDoesNotAbortBatch ==
    /\ [](args.all =>
            /\ \A k \in 1..Len(Visits) : Visits[k].doc = k
            /\ pc = "complete" => Len(Visits) = Len(documents)
            /\ \A n \in 1..Len(documents) :
                  Failed(n) => /\ "marked" \notin EventsOf(n)
                               /\ ~(pc = "crashed" /\ doc_index = n))
    /\ [][args.all => (FailureStep /\ ContinueStep)]_vars

\* C16 witness: a run with --all is over in which the conversion of the first
\* document failed and the second document was processed and marked
C16_Witness ==
    /\ args.all
    /\ pc = "complete"
    /\ Len(documents) = 2
    /\ "error_converting" \in EventsOf(1)
    /\ "marked" \in EventsOf(2)

\* conversion, extraction and saving of the n-th document finished without error
Succeeded(n) == "saving" \in EventsOf(n) /\ ~Failed(n)

\* main is done with the n-th document
HandlingOver(n) == doc_index > n \/ pc \in {"complete", "crashed"}

\* C17: once main is done with a document whose conversion, extraction and
\* saving all finished without error, the ID of the document is in the
\* processed set of the tracker and in the tracking file.
C17_SuccessIsTracked ==
    \A n \in 1..Len(documents) :
        (Succeeded(n) /\ HandlingOver(n)) =>
            /\ main_doc_id(documents[n], n) \in processed_ids
            /\ tracking_file.exists
            /\ main_doc_id(documents[n], n) \in Range(tracking_file.ids)

\* C18: a document for which get_document_as_markdown returned the empty
\* string is skipped and not treated as an error: the only message is the
\* warning that it is skipped, no extraction call is made, no file is written,
\* nothing is handed back to main, the document is not marked, and the run
\* goes on: it does not end at this document unless it is the last one.
C18_EmptyNotesSkipped ==
    /\ (result = PyStr(<<>>) /\ pc \notin {"loop", "complete"}) =>
          /\ pc \in {"done", "returned"}
          /\ EventsOf(doc_index) \subseteq {"processing", "skipping"}
          /\ \A f \in files : f.doc # doc_index
          /\ pc = "returned" =>
                /\ log[Len(log)] = Event(doc_index, "skipping")
                /\ saved_paths = {}
    /\ \A n \in 1..Len(documents) :
          "skipping" \in EventsOf(n) =>
             /\ EventsOf(n) = {"processing", "skipping"}
             /\ \A f \in files : f.doc # n
             /\ pc # "crashed" \/ doc_index # n
             /\ (pc = "complete" /\ n < Len(documents)) =>
                   EventsOf(n + 1) \cap {"processing", "already_processed"} # {}

\* C18 witness: the conversion of the first document returned the empty string,
\* the document was skipped, and the run went on to mark the second
C18_Witness ==
    /\ Len(documents) = 2
    /\ documents[1] = ("id" :> PyStr(<<"g">>))
    /\ EventsOf(1) = {"processing", "skipping"}
    /\ "marked" \in EventsOf(2)
    /\ PyStr(<<"g">>) \notin processed_ids

\* the loop is about to take the document at doc_index
AtDocument == pc = "loop" /\ doc_index <= Len(documents)

\* the step of a document that is already processed: it is counted as skipped,
\* the loop moves on, and nothing else happens
SkipStep ==
    /\ pc' = "loop"
    /\ doc_index' = doc_index + 1
    /\ skipped_count' = skipped_count + 1
    /\ Logged = <<Event(doc_index, "already_processed")>>
    /\ <<processed_ids, tracking_file, processed_count, files, ai_result, result>>'
          = <<processed_ids, tracking_file, processed_count, files, ai_result, result>>

\* the step that hands the document at doc_index to process_meeting
ProcessStep ==
    /\ pc' = "transcript"
    /\ document' = documents[doc_index]
    /\ doc_index' = doc_index
    /\ skipped_count' = skipped_count
    /\ Logged = <<Event(doc_index, "processing")>>

\* C22: in a run without --force a document whose ID is in the processed set
\* of the tracker is not converted, sent to extraction or saved: it is counted
\* as skipped, with the tracker left as it was, and the log of the run holds
\* nothing else for it.  With --force the set is not consulted and the
\* document is handed to process_meeting like any other.
C22_ProcessedDocumentsSkipped ==
    /\ [][AtDocument =>
            IF ~args.force
                /\ main_doc_id(documents[doc_index], doc_index) \in processed_ids
            THEN SkipStep ELSE ProcessStep]_vars
    /\ [](/\ \A n \in 1..Len(documents) :
                "already_processed" \in EventsOf(n) =>
                    /\ ~args.force
                    /\ EventsOf(n) = {"already_processed"}
                    /\ \A f \in files : f.doc # n
          /\ skipped_count =
                Cardinality({n \in 1..Len(documents) :
                                "already_processed" \in EventsOf(n)}))

\* C22 witness: in a run without --force the document d, processed by an
\* earlier run, was skipped and the document after it was processed
C22_Witness ==
    /\ ~args.force
    /\ Len(documents) = 2
    /\ DocGet(documents[1], "id", PyNone) = PyStr(<<"d">>)
    /\ EventsOf(1) = {"already_processed"}
    /\ skipped_count = 1
    /\ "marked" \in EventsOf(2)

\* what the log holds for a document that went through conversion, extraction
\* and saving to the end of process_meeting
CompletedEvents ==
    {"processing", "processing_with_ai", "saving", "processed_successfully"}

\* the output files of the run that belong to the n-th document
FilesOf(n) == {f \in files : f.doc = n}

\* C23: the tracker and its file change only in the step that marks the
\* document in hand, and a document is marked only when its conversion, its
\* extraction and its saving are all in the log without an error and at least
\* one output file of it was written; a document with a failure, or skipped
\* for empty or too short notes, is not marked, so that an ID the tracker did
\* not hold before the document was handled is not held after it either.
C23_MarkedOnlyAfterSuccess ==
    /\ [][/\ <<processed_ids, tracking_file>>' # <<processed_ids, tracking_file>>
                => Logged = <<Event(doc_index, "marked")>>
          /\ (Logged # <<>> /\ Logged[Len(Logged)].event = "marked") =>
                /\ pc = "returned"
                /\ CompletedEvents \subseteq EventsOf(doc_index)
                /\ ~Failed(doc_index)
                /\ FilesOf(doc_index) # {}
                /\ processed_ids' = processed_ids
                        \cup {main_doc_id(documents[doc_index], doc_index)}]_vars
    /\ [](\A n \in 1..Len(documents) :
            /\ "marked" \in EventsOf(n) =>
                  /\ CompletedEvents \subseteq EventsOf(n)
                  /\ FilesOf(n) # {}
                  /\ main_doc_id(documents[n], n) \in processed_ids
            /\ (Failed(n) \/ "skipping" \in EventsOf(n)) =>
                  "marked" \notin EventsOf(n))

\* C23 witness: the first document failed while saving, after an output file
\* of it was written, and was not marked: its ID is not in the tracker; the
\* second document was marked after its files were written
C23_Witness ==
    /\ Len(documents) = 2
    /\ "error_saving" \in EventsOf(1)
    /\ FilesOf(1) # {}
    /\ "marked" \notin EventsOf(1)
    /\ main_doc_id(documents[1], 1) \notin processed_ids
    /\ "marked" \in EventsOf(2)
    /\ FilesOf(2) # {}
    /\ tracking_file.exists

\* the documents main counted as processed
Successes == {n \in 1..Len(documents) : "marked" \in EventsOf(n)}

\* the loop of main is no longer running
LoopStopped == pc \in {"complete", "crashed"}

\* C24: in a run without --all at most one document is processed
\* successfully.  Right after the first success the loop is over, at that
\* document, and no later document was taken from the list; as long as no
\* document succeeded, skipped and failed documents do not stop the loop: it
\* stops only when every document of the list was taken.
C24_FirstSuccessStopsLoop ==
    ~args.all =>
        /\ Cardinality(Successes) <= 1
        /\ processed_count = Cardinality(Successes)
        /\ \A n \in Successes :
              /\ pc = "complete"
              /\ doc_index = n
              /\ \A k \in 1..Len(Visits) : Visits[k].doc <= n
        /\ \A k \in 1..Len(Visits) : Visits[k].doc = k
        /\ (LoopStopped /\ Successes = {}) => Len(Visits) = Len(documents)

-----------------------------------------------------------------------------
(* Properties of the tracker *)

\* the IDs a tracker constructed now on the directory would take for processed
StoredIds == load_processed_ids(tracking_file)

\* the last call of the step
LastCall == log'[Len(log')]

\* C25: after any calls of mark_processed the IDs stored in the tracking file
\* are the IDs of the set in memory, and the file exists once an ID was
\* marked; no call takes an ID out of the set, marking an ID of the set
\* leaves the set as it was, marking another one adds just that one, and a
\* tracker constructed on the same directory holds the same set: is_processed
\* is true for exactly the IDs marked.
C25_FileEqualsSet ==
    /\ [](/\ StoredIds = processed_ids
          /\ (\E k \in 1..Len(log) : log[k].call = "mark_processed")
                => tracking_file.exists
          /\ \A k \in 1..Len(log) :
                log[k].call = "mark_processed" =>
                    is_processed(processed_ids, log[k].document_id)
          /\ \A document_id \in TrackerIds :
                is_processed(StoredIds, document_id)
                    <=> is_processed(processed_ids, document_id))
    /\ [][/\ processed_ids \subseteq processed_ids'
          /\ LastCall.call = "mark_processed" =>
                /\ processed_ids' = processed_ids \cup {LastCall.document_id}
                /\ LastCall.document_id \in processed_ids
                        => processed_ids' = processed_ids
          /\ LastCall.call = "__init__" => processed_ids' = processed_ids]_vars

\* C25 witness: an ID was marked twice, a second ID once, and a tracker was
\* then constructed on the directory, which holds the two IDs
C25_Witness ==
    /\ Len(log) = 3
    /\ log[1].call = "mark_processed"
    /\ log[2] = log[1]
    /\ log[3].call = "__init__"
    /\ Cardinality(processed_ids) = 2
    /\ Len(tracking_file.ids) = 2

-----------------------------------------------------------------------------
(* Properties of the keys of the tracker across runs *)

\* the documents marked before the loop took the n-th document, by the
\* earlier run or by this one, with their keys
MarkedBefore(n) ==
    EarlierMarked \cup
    {[key |-> main_doc_id(documents[m], m), doc |-> documents[m]] :
        m \in {k \in 1..(n - 1) : "marked" \in EventsOf(k)}}

\* C27: a document is skipped as already processed only if this very
\* document was marked before, by an earlier run or earlier in this one; and
\* a document is never marked under the key another document was marked under.
C27_SkippedOnlyIfSameDocumentMarked ==
    \A n \in 1..Len(documents) :
        /\ "already_processed" \in EventsOf(n) =>
              \E marked \in MarkedBefore(n) : marked.doc = documents[n]
        /\ "marked" \in EventsOf(n) =>
              \A marked \in MarkedBefore(n) :
                  marked.doc # documents[n]
                      => marked.key # main_doc_id(documents[n], n)

====
